---- MODULE Spec2Model ----
(***************************************************************************)
(* Model of api_demo.py (SIS webservice reports): the paged fetcher        *)
(* send_request and the three reports get_logger_models, get_equipment and *)
(* get_equipinstall.  Python dicts are TLA+ functions with string domains, *)
(* Python lists are sequences, a KeyError is a failed DOMAIN test.         *)
(***************************************************************************)
EXTENDS Integers, Sequences, FiniteSets, TLC

VARIABLES
    report,        \* which report main() dispatched to
    mode,          \* args.mode
    outfpathname,  \* args.outfilename
    args,          \* the report's filter selectors
    tokenfile,     \* "present" or "missing": the token file of the mode
    pc,            \* position of the run
    filterparams,  \* the caller-owned filter mapping handed to send_request
    fp0,           \* history: filterparams as first handed to send_request
    reqs,          \* history: the GET requests issued, in order
    resps,         \* history: the responses received, in order
    all_data,      \* send_request's accumulated primary records
    incl_dict,     \* send_request's side table  type -> id -> attributes
    outcome,       \* how send_request ended: "none", "tuple", "None", "raise"
    equips,        \* the rows assembled by the report
    file           \* the output csv file

vars == <<report, mode, outfpathname, args, tokenfile, pc, filterparams, fp0,
          reqs, resps, all_data, incl_dict, outcome, equips, file>>

\* ----------------------------------------------------------------- bounds
MaxPages == 3     \* largest total page count the server reports
MaxEpochs == 2    \* longest equipepochs list of a record (row specification)
MaxIps == 3       \* longest equipips list of a record (row specification)

\* --------------------------------------------------------------- helpers
None == "<None>"
PageKey == "page[number]"
EmptyDict == [k \in {} |-> None]

Max(a, b) == IF a > b THEN a ELSE b
Range(s) == {s[i] : i \in DOMAIN s}

\* dict.update / {**d, **e}
Update(d, e) == [k \in DOMAIN d \cup DOMAIN e |-> IF k \in DOMAIN e THEN e[k] ELSE d[k]]

\* { k: d[k] for k in keys }, keys a list
Project(d, keys) == [k \in Range(keys) |-> d[k]]

\* sep.join(list) on strings
RECURSIVE JoinStr(_, _)
JoinStr(sep, l) ==
    IF l = <<>> THEN ""
    ELSE IF Len(l) = 1 THEN l[1]
    ELSE l[1] \o sep \o JoinStr(sep, Tail(l))

config == [prod |-> [baseurl |-> "https://anss-sis.scsn.org/sis/api",
                     tokenfile |-> "sis_prod.token"],
           test |-> [baseurl |-> "https://anss-sis.scsn.org/sistest/api",
                     tokenfile |-> "sis_test.token"]]

\* ------------------------------------------------------------- csv file
NoFile == [opened |-> FALSE, header |-> <<>>, rows |-> <<>>]

\* csv.DictWriter(..., extrasaction='ignore').writerow(d): one value per
\* field name, restval '' for a key the dict lacks, extra keys dropped
CsvRow(d, fieldnames) ==
    [i \in 1..Len(fieldnames) |->
        IF fieldnames[i] \in DOMAIN d THEN d[fieldnames[i]] ELSE ""]

\* ------------------------------------------------------- the paged fetcher
\* all_data.extend(res['data'])
ExtendRev(acc, data) == data \o acc
Extend(acc, data) == acc \o data

\* incl_dict[entry['type']][entry['id']] = entry['attributes']
MergeEntryFirst(d, entry) ==
    LET t == entry.type
        inner == IF t \in DOMAIN d THEN d[t] ELSE EmptyDict
        inner2 == IF entry.id \in DOMAIN inner THEN inner
                  ELSE Update(inner, (entry.id :> entry.attributes))
    IN  Update(d, (t :> inner2))
MergeEntry(d, entry) ==
    LET t == entry.type
        inner == IF t \in DOMAIN d THEN d[t] ELSE EmptyDict
    IN  Update(d, (t :> Update(inner, (entry.id :> entry.attributes))))

\* for entry in included: ...
RECURSIVE MergeIncluded(_, _)
MergeIncluded(d, included) ==
    IF included = <<>> THEN d
    ELSE MergeIncluded(MergeEntry(d, Head(included)), Tail(included))

\* included = res.get('included', None); if included: ...
IncludedOf(res) == IF "included" \in DOMAIN res THEN res.included ELSE <<>>

\* filterparams['page[number]'] += 1
NextPageSkip(fp) == [fp EXCEPT ![PageKey] = @ + 2]
NextPageClobber(fp) == [k \in DOMAIN fp |-> IF k = PageKey THEN fp[k] + 1 ELSE ""]
NextPage(fp) == [fp EXCEPT ![PageKey] = @ + 1]

\* if filterparams['page[number]'] > number_of_pages: break
LoopDoneOffByOne(fp, number_of_pages) == fp[PageKey] >= number_of_pages
LoopDone(fp, number_of_pages) == fp[PageKey] > number_of_pages

\* what the report does with an exception raised by send_request:
\* get_logger_models has no handler, the other two swallow it and return
OnFetchErrorContinue(rep) == "fetched"
OnFetchError(rep) == IF rep = "loggermodel" THEN "crashed" ELSE "swallowed"

Endpoint(rep) ==
    CASE rep = "loggermodel" -> "v1/equipment-models"
      [] rep = "equipment" -> "v1/equipment"
      [] rep = "equipinstall" -> "v1/equipment-installations"

\* a response body of the assumed shape
Body(data, pages) == [data |-> data, meta |-> [pagination |-> [pages |-> pages]]]
BodyIncl(data, included, pages) == Update(Body(data, pages), [included |-> included])

\* ------------------------------------------------ logger-model report
lm_fieldnames == <<"modelname", "manufacturer", "family", "description", "notes",
                   "createdby", "datecreated", "modifiedby", "datemodified">>

\* sample equipment-model resources the server may return
LMAttrs(name) == [modelname |-> name, manufacturer |-> "KMI", family |-> "Q",
                  description |-> "logger", notes |-> "", createdby |-> "u1",
                  datecreated |-> "2020-01-01", modifiedby |-> "u2",
                  datemodified |-> "2021-01-01"]
LMRec(id, attrs) == [type |-> "EquipModel", id |-> id, attributes |-> attrs]
lm1 == LMRec("1", LMAttrs("Q330"))
lm2 == LMRec("2", LMAttrs("Q8"))
\* an attribute missing (restval) and an attribute the report does not print
lm3 == LMRec("3", [modelname |-> "RT130", manufacturer |-> "REFTEK", isactive |-> "y"])
\* a resource object without the 'attributes' member
lmBare == [type |-> "EquipModel", id |-> "4"]

LoggerBodies(p) ==
    { Body(<<lm1, lm2>>, p),
      BodyIncl(<<lm3>>, <<>>, p),
      Body(<<>>, p),
      Body(<<lm2, lmBare, lm1>>, p) }

\* for r in all_data: writer.writerow(r['attributes'])   (inside the with block)
LMRowOk(r) == "attributes" \in DOMAIN r

\* index of the first record whose loop body raises, given for each record
\* whether its loop body raises nothing; Len(oks) + 1 if none raises
FirstBad(oks) ==
    IF \A i \in DOMAIN oks : oks[i] THEN Len(oks) + 1
    ELSE CHOOSE i \in DOMAIN oks : ~oks[i] /\ \A j \in 1..(i-1) : oks[j]

\* ---------------------------------------------------- equipment report
attr_keys == <<"serialnumber", "sourcetemplate", "notes", "createdby", "datecreated",
               "modifiedby", "datemodified">>
ee_keys == <<"operatorcode", "ownercode", "inventory">>
model_keys == <<"category", "manufacturer", "modelname">>
eq_fieldnames == <<"category", "manufacturer", "modelname", "serialnumber",
                   "operatorcode", "ownercode", "inventory", "ipv4addresses", "sim-id",
                   "sourcetemplate", "notes", "createdby", "datecreated", "modifiedby",
                   "datemodified">>

\* Text of an IP address is a sequence of characters, so that the joined
\* column can be examined position by position.
IpSep == <<",", " ">>

\* ', '.join(ips)
RECURSIVE JoinIpsNoSpace(_)
JoinIpsNoSpace(ips) ==
    IF ips = <<>> THEN <<>>
    ELSE IF Len(ips) = 1 THEN ips[1]
    ELSE ips[1] \o <<",">> \o JoinIpsNoSpace(Tail(ips))
RECURSIVE JoinIps(_)
JoinIps(ips) ==
    IF ips = <<>> THEN <<>>
    ELSE IF Len(ips) = 1 THEN ips[1]
    ELSE ips[1] \o IpSep \o JoinIps(Tail(ips))

\* for ee in attribs['equipepochs']: if ee['offdate'] is None: equip.update(...)
RECURSIVE ApplyEpochsAll(_, _)
ApplyEpochsAll(equip, epochs) ==
    IF epochs = <<>> THEN equip
    ELSE ApplyEpochsAll(Update(equip, Project(Head(epochs), ee_keys)), Tail(epochs))
RECURSIVE ApplyEpochs(_, _)
ApplyEpochs(equip, epochs) ==
    IF epochs = <<>> THEN equip
    ELSE ApplyEpochs(IF Head(epochs).offdate = None
                     THEN Update(equip, Project(Head(epochs), ee_keys))
                     ELSE equip,
                     Tail(epochs))

\* for setting in attribs['equipsettings']: if setting['keyname'] == 'SIM-ID': ...
RECURSIVE ApplySettings(_, _)
ApplySettings(equip, settings) ==
    IF settings = <<>> THEN equip
    ELSE ApplySettings(IF Head(settings).keyname = "SIM-ID"
                       THEN Update(equip, ("sim-id" :> Head(settings).settingvalue))
                       ELSE equip,
                       Tail(settings))

\* [ ip.get('ipv4address', None) for ip in attribs['equipips'] ]; an entry
\* without the key yields None, on which join raises TypeError
IpsJoinable(equipips) == \A i \in DOMAIN equipips : "ipv4address" \in DOMAIN equipips[i]
IpList(equipips) == [i \in DOMAIN equipips |-> equipips[i].ipv4address]

\* r['relationships'][name]['data'] resolved in incl_dict without a KeyError
RefOk(r, name, incl, keys) ==
    /\ "relationships" \in DOMAIN r
    /\ name \in DOMAIN r.relationships
    /\ "data" \in DOMAIN r.relationships[name]
    /\ LET lookup == r.relationships[name].data
       IN  /\ {"type", "id"} \subseteq DOMAIN lookup
           /\ lookup.type \in DOMAIN incl
           /\ lookup.id \in DOMAIN incl[lookup.type]
           /\ Range(keys) \subseteq DOMAIN incl[lookup.type][lookup.id]
Resolve(r, name, incl) ==
    LET lookup == r.relationships[name].data IN incl[lookup.type][lookup.id]

\* the body of the record loop of get_equipment raises nothing for r
EquipRowOk(r, incl) ==
    /\ "attributes" \in DOMAIN r
    /\ Range(attr_keys) \subseteq DOMAIN r.attributes
    /\ RefOk(r, "equipmodel", incl, model_keys)
    /\ "equipepochs" \in DOMAIN r.attributes
    /\ \A i \in DOMAIN r.attributes.equipepochs :
          LET ee == r.attributes.equipepochs[i]
          IN  /\ "offdate" \in DOMAIN ee
              /\ ee.offdate = None => Range(ee_keys) \subseteq DOMAIN ee
    /\ "equipips" \in DOMAIN r.attributes
    /\ IpsJoinable(r.attributes.equipips)
    /\ "equipsettings" \in DOMAIN r.attributes
    /\ \A i \in DOMAIN r.attributes.equipsettings :
          LET setting == r.attributes.equipsettings[i]
          IN  /\ "keyname" \in DOMAIN setting
              /\ setting.keyname = "SIM-ID" => "settingvalue" \in DOMAIN setting

\* the dict the record loop of get_equipment appends for r
EquipRow(r, incl) ==
    LET attribs == r.attributes
        e0 == Project(attribs, attr_keys)
        e1 == Update(e0, Project(Resolve(r, "equipmodel", incl), model_keys))
        e2 == ApplyEpochs(e1, attribs.equipepochs)
        ips == IpList(attribs.equipips)
        e3 == Update(e2, [ipv4addresses |-> IF ips # <<>> THEN JoinIps(ips) ELSE <<>>])
    IN  ApplySettings(e3, attribs.equipsettings)

\* sample equipment resources and their included models
Epoch(off, v) == [ondate |-> "2019-01-01", offdate |-> off, operatorcode |-> "OP-" \o v,
                  ownercode |-> "OWN-" \o v, inventory |-> "INV-" \o v]
Ip(text) == [ipv4address |-> text, netmask |-> "255.255.255.0"]
Setting(k, v) == [keyname |-> k, settingvalue |-> v]
Ref(t, i) == [data |-> [type |-> t, id |-> i]]
EqAttrs(serial, epochs, ips, settings) ==
    [serialnumber |-> serial, sourcetemplate |-> "tmpl", notes |-> "", createdby |-> "u1",
     datecreated |-> "2020-01-01", modifiedby |-> "u2", datemodified |-> "2021-01-01",
     equipepochs |-> epochs, equipips |-> ips, equipsettings |-> settings]
EqRec(id, attrs, modelid) ==
    [type |-> "Equipment", id |-> id, attributes |-> attrs,
     relationships |-> [equipmodel |-> Ref("EquipModel", modelid)]]
ModelEntry(id, name) ==
    [type |-> "EquipModel", id |-> id,
     attributes |-> [category |-> "MODEM", manufacturer |-> "SIERRA", modelname |-> name]]

eqA == EqRec("10", EqAttrs("SN10", <<Epoch("2020-01-01", "old"), Epoch(None, "now")>>,
                           <<Ip(<<"1", "0">>), Ip(<<"7">>)>>,
                           <<Setting("APN", "x"), Setting("SIM-ID", "8901")>>), "1")
eqB == EqRec("11", EqAttrs("SN11", <<Epoch(None, "now")>>, <<>>, <<>>), "1")
eqC == EqRec("12", EqAttrs("SN12", <<>>, <<Ip(<<"9">>)>>, <<>>), "2")
\* an expected attribute is missing
eqNoSerial == [eqA EXCEPT !.attributes = [k \in DOMAIN @ \ {"serialnumber"} |-> @[k]]]
\* the related model is never included
eqDangling == EqRec("13", EqAttrs("SN13", <<>>, <<>>, <<>>), "3")

EquipmentBodies(p) ==
    { BodyIncl(<<eqA, eqB>>, <<ModelEntry("1", "AIRLINK GX440")>>, p),
      BodyIncl(<<eqC>>, <<ModelEntry("1", "AIRLINK GX450"), ModelEntry("2", "CP-WAN")>>, p),
      Body(<<>>, p),
      BodyIncl(<<eqNoSerial>>, <<>>, p),
      BodyIncl(<<eqDangling>>, <<ModelEntry("2", "CP-WAN")>>, p) }

\* ----------------------------------------- equipment-installation report
ei_attr_keys == <<"ondate">>
e_keys == <<"modelname", "serialnumber", "category">>
site_keys == <<"netcode", "lookupcode">>
ei_fieldnames == <<"modelname", "serialnumber", "netcode", "lookupcode">>

\* the body of the record loop of get_equipinstall raises nothing for r
InstallRowOk(r, incl) ==
    /\ "attributes" \in DOMAIN r
    /\ Range(ei_attr_keys) \subseteq DOMAIN r.attributes
    /\ RefOk(r, "equipment", incl, e_keys)
    /\ RefOk(r, "siteepoch", incl, site_keys)

\* the dict the record loop of get_equipinstall appends for r
InstallRow(r, incl) ==
    LET equipinstall == Project(r.attributes, ei_attr_keys)
        e1 == Update(equipinstall, Project(Resolve(r, "equipment", incl), e_keys))
    IN  Update(e1, Project(Resolve(r, "siteepoch", incl), site_keys))

InRec(id, equipid, siteid) ==
    [type |-> "EquipInstall", id |-> id, attributes |-> [ondate |-> "2022-01-01", isactive |-> "y"],
     relationships |-> [equipment |-> Ref("Equipment", equipid),
                        siteepoch |-> Ref("SiteEpoch", siteid)]]
EquipEntry(id, serial) ==
    [type |-> "Equipment", id |-> id,
     attributes |-> [modelname |-> "Q330", serialnumber |-> serial, category |-> "LOGGER"]]
SiteEntry(id, lookup) ==
    [type |-> "SiteEpoch", id |-> id, attributes |-> [netcode |-> "AK", lookupcode |-> lookup]]

InstallBodies(p) ==
    { BodyIncl(<<InRec("20", "1", "1")>>, <<EquipEntry("1", "SN1"), SiteEntry("1", "S32K")>>, p),
      BodyIncl(<<InRec("21", "1", "2"), InRec("20", "1", "1")>>,
               <<SiteEntry("2", "M19K"), EquipEntry("1", "SN1b")>>, p),
      Body(<<>>, p),
      BodyIncl(<<InRec("22", "9", "1")>>, <<SiteEntry("1", "S32K")>>, p) }

Bodies(rep, p) ==
    CASE rep = "loggermodel" -> LoggerBodies(p)
      [] rep = "equipment" -> EquipmentBodies(p)
      [] rep = "equipinstall" -> InstallBodies(p)

\* ------------------------------------------------------ program inputs
Modes == {"test", "prod", "dev"}
OutPaths == {"", "out.csv"}
SeqsUpTo(S, n) == UNION {[1..k -> S] : k \in 0..n}

ArgSets(rep) ==
    CASE rep = "loggermodel" -> {EmptyDict}
      [] rep = "equipment" ->
            [modelnames : {<<>>, <<"AIRLINK GX440", "CP-WAN">>},
             operatorcodes : {<<>>, <<"SCSN-CA">>},
             inventory_states : {<<>>, <<"INSTALLED">>}]
      [] rep = "equipinstall" ->
            [categorys : {<<>>, <<"LOGGER">>},
             netcodes : {<<>>, <<"AK">>},
             lookupcodes : {<<>>, <<"S32K", "M19K">>}]

Init ==
    /\ report \in {"loggermodel", "equipment", "equipinstall"}
    /\ mode \in Modes
    /\ outfpathname \in OutPaths
    /\ args \in ArgSets(report)
    /\ tokenfile \in {"present", "missing"}
    /\ pc = "start"
    /\ filterparams = EmptyDict
    /\ fp0 = EmptyDict
    /\ reqs = <<>>
    /\ resps = <<>>
    /\ all_data = <<>>
    /\ incl_dict = EmptyDict
    /\ outcome = "none"
    /\ equips = <<>>
    /\ file = NoFile

\* --------------------------------------------------- entering send_request
\* send_request up to its loop: the mode check, the url, the token file and
\* the two accumulators.  A None return fails the caller's tuple unpacking
\* and a missing token file raises, both taken as OnFetchError by the caller.
CallSendRequest(fp) ==
    /\ filterparams' = fp
    /\ fp0' = fp
    /\ all_data' = <<>>
    /\ incl_dict' = EmptyDict
    /\ IF mode \notin DOMAIN config
       THEN outcome' = "None" /\ pc' = OnFetchError(report)
       ELSE IF tokenfile = "missing"
       THEN outcome' = "raise" /\ pc' = OnFetchError(report)
       ELSE outcome' = "none" /\ pc' = "fetching"
    /\ UNCHANGED <<report, mode, outfpathname, args, tokenfile, reqs, resps, equips, file>>

Abort ==
    /\ pc' = "aborted"
    /\ UNCHANGED <<report, mode, outfpathname, args, tokenfile, filterparams, fp0, reqs,
                   resps, all_data, incl_dict, outcome, equips, file>>

\* get_logger_models, lines 60-68
GetLoggerModelsStart ==
    /\ pc = "start" /\ report = "loggermodel"
    /\ IF outfpathname = "" THEN Abort
       ELSE CallSendRequest([category |-> "LOGGER", sort |-> "modelname"] @@ (PageKey :> 1))

\* if not modelnames and not operatorcodes: return
EquipmentSelectorsMissing(a) == a.modelnames = <<>> /\ a.operatorcodes = <<>>

EquipmentParams(a) ==
    LET base == [modelname |-> JoinStr(",", a.modelnames),
                 operatorcode |-> JoinStr(",", a.operatorcodes)] @@ (PageKey :> 1)
    IN  IF a.inventory_states # <<>>
        THEN Update(base, [inventory |-> JoinStr(",", a.inventory_states)])
        ELSE base

\* get_equipment, lines 87-103
GetEquipmentStart ==
    /\ pc = "start" /\ report = "equipment"
    /\ IF outfpathname = "" \/ EquipmentSelectorsMissing(args) THEN Abort
       ELSE CallSendRequest(EquipmentParams(args))

\* if not categorys: return
InstallSelectorsMissing(a) == a.categorys = <<>>

InstallParams(a) ==
    LET f0 == [category |-> JoinStr(",", a.categorys)]
        s0 == [sort |-> "category"]
        f1 == IF a.netcodes # <<>> THEN Update(f0, [netcode |-> JoinStr(",", a.netcodes)]) ELSE f0
        s1 == IF a.netcodes # <<>> THEN [sort |-> "netcode"] ELSE s0
        f2 == IF a.lookupcodes # <<>>
              THEN Update(f1, [lookupcode |-> JoinStr(",", a.lookupcodes)]) ELSE f1
        s2 == IF a.lookupcodes # <<>> THEN [sort |-> "lookupcode"] ELSE s1
        f3 == Update(f2, [isactive |-> "y"] @@ (PageKey :> 1))
    IN  Update(f3, s2)

\* get_equipinstall, lines 166-189
GetEquipinstallStart ==
    /\ pc = "start" /\ report = "equipinstall"
    /\ IF outfpathname = "" \/ InstallSelectorsMissing(args) THEN Abort
       ELSE CallSendRequest(InstallParams(args))

\* ------------------------------------------------ one turn of the fetch loop
\* requests.get(url, params=filterparams); raise_for_status(); accumulate;
\* advance the page; leave the loop or go round again.  bodies is the set of
\* bodies the server may answer with.
SendRequestPage(bodies) ==
    /\ pc = "fetching"
    /\ reqs' = Append(reqs, [url |-> config[mode].baseurl \o "/" \o Endpoint(report),
                             params |-> filterparams])
    /\ \E status \in {"ok", "error"} :
         IF status = "error"
         THEN /\ resps' = Append(resps, [status |-> "error", body |-> EmptyDict])
              /\ outcome' = "raise"
              /\ pc' = OnFetchError(report)
              /\ UNCHANGED <<filterparams, all_data, incl_dict>>
         ELSE \E res \in bodies :
              /\ resps' = Append(resps, [status |-> "ok", body |-> res])
              /\ all_data' = Extend(all_data, res.data)
              /\ incl_dict' = MergeIncluded(incl_dict, IncludedOf(res))
              /\ filterparams' = NextPage(filterparams)
              /\ IF LoopDone(filterparams', res.meta.pagination.pages)
                 THEN outcome' = "tuple" /\ pc' = "fetched"
                 ELSE outcome' = "none" /\ pc' = "fetching"
    /\ UNCHANGED <<report, mode, outfpathname, args, tokenfile, fp0, equips, file>>

ServerBodies == UNION {Bodies(report, p) : p \in 0..MaxPages}
SendRequest == SendRequestPage(ServerBodies)

\* ------------------------------------------------------- after the fetch
\* with open(outfpathname, 'w') ...: writeheader(); writerow() per element
WriteCsv(fieldnames, rows) ==
    [opened |-> TRUE, header |-> fieldnames,
     rows |-> [i \in DOMAIN rows |-> CsvRow(rows[i], fieldnames)]]

\* get_logger_models, lines 73-80: the rows are taken from the records while
\* the file is open, so a record without 'attributes' ends the run there
WriteLoggerModels ==
    /\ pc = "fetched" /\ report = "loggermodel"
    /\ LET bad == FirstBad([i \in DOMAIN all_data |-> LMRowOk(all_data[i])])
           good == [i \in 1..(bad - 1) |-> all_data[i].attributes]
       IN  /\ file' = WriteCsv(lm_fieldnames, good)
           /\ pc' = IF bad > Len(all_data) THEN "done" ELSE "crashed"
    /\ UNCHANGED <<report, mode, outfpathname, args, tokenfile, filterparams, fp0, reqs,
                   resps, all_data, incl_dict, outcome, equips>>

\* get_equipment, lines 116-150: the record loop, before the file is opened
AssembleEquipment ==
    /\ pc = "fetched" /\ report = "equipment"
    /\ LET bad == FirstBad([i \in DOMAIN all_data |-> EquipRowOk(all_data[i], incl_dict)])
       IN  /\ equips' = [i \in 1..(bad - 1) |-> EquipRow(all_data[i], incl_dict)]
           /\ pc' = IF bad > Len(all_data) THEN "assembled" ELSE "crashed"
    /\ UNCHANGED <<report, mode, outfpathname, args, tokenfile, filterparams, fp0, reqs,
                   resps, all_data, incl_dict, outcome, file>>

\* get_equipment, lines 152-159
WriteEquipment ==
    /\ pc = "assembled" /\ report = "equipment"
    /\ file' = WriteCsv(eq_fieldnames, equips)
    /\ pc' = "done"
    /\ UNCHANGED <<report, mode, outfpathname, args, tokenfile, filterparams, fp0, reqs,
                   resps, all_data, incl_dict, outcome, equips>>

\* get_equipinstall, lines 201-222
AssembleEquipinstall ==
    /\ pc = "fetched" /\ report = "equipinstall"
    /\ LET bad == FirstBad([i \in DOMAIN all_data |-> InstallRowOk(all_data[i], incl_dict)])
       IN  /\ equips' = [i \in 1..(bad - 1) |-> InstallRow(all_data[i], incl_dict)]
           /\ pc' = IF bad > Len(all_data) THEN "assembled" ELSE "crashed"
    /\ UNCHANGED <<report, mode, outfpathname, args, tokenfile, filterparams, fp0, reqs,
                   resps, all_data, incl_dict, outcome, file>>

\* get_equipinstall, lines 224-231
WriteEquipinstall ==
    /\ pc = "assembled" /\ report = "equipinstall"
    /\ file' = WriteCsv(ei_fieldnames, equips)
    /\ pc' = "done"
    /\ UNCHANGED <<report, mode, outfpathname, args, tokenfile, filterparams, fp0, reqs,
                   resps, all_data, incl_dict, outcome, equips>>

Next ==
    \/ GetLoggerModelsStart
    \/ GetEquipmentStart
    \/ GetEquipinstallStart
    \/ SendRequest
    \/ WriteLoggerModels
    \/ AssembleEquipment
    \/ WriteEquipment
    \/ AssembleEquipinstall
    \/ WriteEquipinstall

Spec == Init /\ [][Next]_vars

\* ---------------------------------------- the equipment rows on their own
\* One equipment run whose server answers with one record drawn from every
\* epoch list and IP list within the bounds.
EpochSet == {Epoch(off, v) : off \in {None, "2020-01-01"}, v \in {"a", "b"}}
IpSet == {Ip(<<"1", "0">>), Ip(<<"7">>), [netmask |-> "255.255.255.0"]}
RowRecords ==
    {EqRec("10", EqAttrs("SN10", epochs, ips, <<Setting("SIM-ID", "8901")>>), "1") :
        epochs \in SeqsUpTo(EpochSet, MaxEpochs), ips \in SeqsUpTo(IpSet, MaxIps)}
RowBodies == {BodyIncl(<<r>>, <<ModelEntry("1", "AIRLINK GX440")>>, 1) : r \in RowRecords}

InitRow ==
    /\ Init
    /\ report = "equipment"
    /\ mode = "test"
    /\ tokenfile = "present"
    /\ outfpathname = "out.csv"
    /\ args = [modelnames |-> <<"AIRLINK GX440", "CP-WAN">>, operatorcodes |-> <<"SCSN-CA">>,
               inventory_states |-> <<>>]

SendRequestRow == SendRequestPage(RowBodies)

NextRow ==
    \/ GetEquipmentStart
    \/ SendRequestRow
    \/ AssembleEquipment
    \/ WriteEquipment

SpecRow == InitRow /\ [][NextRow]_vars

\* ======================================================= the properties
Terminal == {"done", "aborted", "crashed", "swallowed"}
Called == pc \notin {"start", "aborted"}
AllOk == \A i \in DOMAIN resps : resps[i].status = "ok"
PagesOf(i) == resps[i].body.meta.pagination.pages
DataOf(i) == resps[i].body.data
ReqPage(i) == reqs[i].params[PageKey]
Fieldnames(rep) ==
    CASE rep = "loggermodel" -> lm_fieldnames
      [] rep = "equipment" -> eq_fieldnames
      [] rep = "equipinstall" -> ei_fieldnames
Column(fieldnames, name) == CHOOSE i \in DOMAIN fieldnames : fieldnames[i] = name

\* C1: started at page 1 against a server that always succeeds and always
\* reports the same page count P, the loop requests pages 1, 2, ... in order
\* without skipping or repeating, never more than max(1, P) of them, goes on
\* while fewer than max(1, P) were answered and has returned exactly when
\* max(1, P) were: P = 3 gives 1, 2, 3 and P = 0 gives page 1 alone.
C1_FixedPageCount ==
    (/\ resps # <<>>
     /\ fp0[PageKey] = 1
     /\ AllOk
     /\ \A i \in DOMAIN resps : PagesOf(i) = PagesOf(1))
    => LET P == PagesOf(1)
       IN  /\ \A i \in DOMAIN reqs : ReqPage(i) = i
           /\ Len(reqs) = Len(resps)
           /\ Len(reqs) <= Max(1, P)
           /\ (outcome = "tuple") <=> (Len(reqs) = Max(1, P))
           /\ (outcome = "none" /\ pc = "fetching") <=> (Len(reqs) < Max(1, P))

C1_Witness ==
    /\ outcome = "tuple"
    /\ AllOk
    /\ Len(reqs) = 3
    /\ \A i \in DOMAIN resps : PagesOf(i) = 3
    /\ <<ReqPage(1), ReqPage(2), ReqPage(3)>> = <<1, 2, 3>>

\* number of records on the pages before page p
RECURSIVE Offset(_)
Offset(p) == IF p <= 1 THEN 0 ELSE Offset(p - 1) + Len(DataOf(p - 1))

\* C2: when send_request returns, record j of page p sits at position
\* (records of the earlier pages) + j of the returned sequence, and the
\* sequence is as long as all pages together: nothing dropped, duplicated or
\* reordered.
C2_Concatenation ==
    outcome = "tuple" =>
        /\ Len(all_data) = Offset(Len(resps) + 1)
        /\ \A p \in DOMAIN resps : \A j \in DOMAIN DataOf(p) :
              all_data[Offset(p) + j] = DataOf(p)[j]

C2_Witness ==
    /\ outcome = "tuple"
    /\ Len(resps) = 3
    /\ Len(DataOf(1)) = 1
    /\ Len(DataOf(2)) = 0
    /\ Len(DataOf(3)) = 2
    /\ DataOf(3)[1] # DataOf(3)[2]
    /\ Len(all_data) = 3

\* the occurrences <<page, index>> of included entries, in fetch order
Occurrences ==
    UNION {{<<p, j>> : j \in DOMAIN IncludedOf(resps[p].body)} : p \in DOMAIN resps}
EntryAt(o) == IncludedOf(resps[o[1]].body)[o[2]]
KeyAt(o) == <<EntryAt(o).type, EntryAt(o).id>>
Later(o1, o2) == o1[1] < o2[1] \/ (o1[1] = o2[1] /\ o1[2] < o2[2])
IsLast(o) == \A o2 \in Occurrences : KeyAt(o2) = KeyAt(o) => ~Later(o, o2)
TableKeys == UNION {{<<t, i>> : i \in DOMAIN incl_dict[t]} : t \in DOMAIN incl_dict}

\* C3: when send_request returns, the (type, id) keys of the side table are
\* exactly those of the included entries of the fetched pages, each key holds
\* the attributes of its last occurrence in fetch order, and merging that
\* entry again changes nothing.
C3_SideTable ==
    outcome = "tuple" =>
        /\ TableKeys = {KeyAt(o) : o \in Occurrences}
        /\ \A t \in DOMAIN incl_dict : DOMAIN incl_dict[t] # {}
        /\ \A o \in Occurrences :
              IsLast(o) =>
                 /\ incl_dict[EntryAt(o).type][EntryAt(o).id] = EntryAt(o).attributes
                 /\ MergeEntry(incl_dict, EntryAt(o)) = incl_dict

C3_Witness ==
    /\ outcome = "tuple"
    /\ \E o1, o2 \in Occurrences :
          /\ Later(o1, o2)
          /\ KeyAt(o1) = KeyAt(o2)
          /\ EntryAt(o1).attributes # EntryAt(o2).attributes
    /\ \E p \in DOMAIN resps : IncludedOf(resps[p].body) = <<>>
    /\ Cardinality(TableKeys) = 2

\* C4: a page request answered with an error status is the last request of
\* the run; send_request raises instead of returning, and the report ends
\* without assembling rows and with the output file never opened.
C4_FetchFailure ==
    \A i \in DOMAIN resps :
        resps[i].status = "error" =>
            /\ i = Len(resps)
            /\ Len(reqs) = i
            /\ outcome = "raise"
            /\ pc \in {"crashed", "swallowed"}
            /\ equips = <<>>
            /\ file = NoFile

C4_Witness ==
    /\ Len(resps) = 2
    /\ resps[1].status = "ok"
    /\ PagesOf(1) = 3
    /\ Len(all_data) > 0
    /\ resps[2].status = "error"
    /\ report = "equipment"

\* a required selector of the report is empty, as the claim reads "required"
RequiredSelectorEmpty ==
    CASE report = "loggermodel" -> FALSE
      [] report = "equipment" -> args.modelnames = <<>> \/ args.operatorcodes = <<>>
      [] report = "equipinstall" -> args.categorys = <<>>

\* C5: with an empty output path or an empty required selector (equipment:
\* model names and operator codes both required; installation: categories)
\* the report is aborted before any request is issued and without creating
\* the output file.
C5_ValidationBeforeNetwork ==
    (outfpathname = "" \/ RequiredSelectorEmpty) =>
        /\ reqs = <<>>
        /\ file = NoFile

\* C6: every run ends with the output file either never opened or holding
\* the header and one row for every primary record fetched.
C6_AllOrNothing ==
    pc \in Terminal =>
        \/ file = NoFile
        \/ /\ file.opened
           /\ file.header = Fieldnames(report)
           /\ Len(file.rows) = Len(all_data)

\* C7: from the call of send_request on, the caller's mapping has the keys it
\* was handed, every entry but the page number has the value it was handed
\* (in every request sent and afterwards, whether the fetch succeeds or
\* fails), and the page number is the starting page plus the number of
\* successful responses.
C7_FrameOfFilterparams ==
    Called =>
        /\ DOMAIN filterparams = DOMAIN fp0
        /\ \A k \in DOMAIN fp0 \ {PageKey} : filterparams[k] = fp0[k]
        /\ filterparams[PageKey] =
              fp0[PageKey] + Cardinality({i \in DOMAIN resps : resps[i].status = "ok"})
        /\ \A i \in DOMAIN reqs :
              /\ DOMAIN reqs[i].params = DOMAIN fp0
              /\ \A k \in DOMAIN fp0 \ {PageKey} : reqs[i].params[k] = fp0[k]

C7_Witness ==
    /\ pc = "swallowed"
    /\ Len(resps) = 3
    /\ resps[3].status = "error"
    /\ filterparams[PageKey] = 3
    /\ Cardinality(DOMAIN fp0) = 6

\* the equipepochs of record i and the indices of its open epochs
EpochsOf(i) == all_data[i].attributes.equipepochs
OpenEpochs(i) == {j \in DOMAIN EpochsOf(i) : EpochsOf(i)[j].offdate = None}

\* C8: in the equipment report, the row of a record with exactly one epoch
\* whose offdate is null carries that epoch's operator code, owner code and
\* inventory state, in the assembled row and in the line written to the file,
\* wherever the closed epochs stand.
C8_CurrentEpoch ==
    (report = "equipment" /\ pc \in {"assembled", "done"}) =>
        \A i \in DOMAIN equips :
            Cardinality(OpenEpochs(i)) = 1 =>
                LET ee == EpochsOf(i)[CHOOSE j \in OpenEpochs(i) : TRUE]
                IN  /\ \A k \in Range(ee_keys) : equips[i][k] = ee[k]
                    /\ pc = "done" =>
                          \A k \in Range(ee_keys) :
                              file.rows[i][Column(eq_fieldnames, k)] = ee[k]

C8_Witness ==
    /\ report = "equipment" /\ pc = "done"
    /\ Len(equips) = 1
    /\ Len(EpochsOf(1)) = 2
    /\ OpenEpochs(1) = {1}
    /\ EpochsOf(1)[2].operatorcode # EpochsOf(1)[1].operatorcode
    /\ file.rows[1][Column(eq_fieldnames, "operatorcode")] = EpochsOf(1)[1].operatorcode

\* the IPv4 texts of record i and where text k starts in the joined column
IpsOf(i) == IpList(all_data[i].attributes.equipips)
RECURSIVE IpStart(_, _)
IpStart(i, k) == IF k <= 1 THEN 1 ELSE IpStart(i, k - 1) + Len(IpsOf(i)[k - 1]) + Len(IpSep)

\* C9: in the equipment report the IP-address column of a row is empty for a
\* record without IP entries; otherwise it holds the entries' IPv4 texts in
\* their original order, each followed by ", " except the last, and nothing
\* else.  The line written to the file carries the same column.
C9_IpColumn ==
    (report = "equipment" /\ pc \in {"assembled", "done"}) =>
        \A i \in DOMAIN equips :
            LET ips == IpsOf(i)
                n == Len(ips)
                col == equips[i].ipv4addresses
            IN  /\ n = 0 => col = <<>>
                /\ n > 0 =>
                      /\ Len(col) = IpStart(i, n) + Len(ips[n]) - 1
                      /\ \A k \in 1..n :
                            SubSeq(col, IpStart(i, k), IpStart(i, k) + Len(ips[k]) - 1) = ips[k]
                      /\ \A k \in 1..(n - 1) :
                            SubSeq(col, IpStart(i, k) + Len(ips[k]), IpStart(i, k + 1) - 1)
                               = <<",", " ">>
                /\ pc = "done" => file.rows[i][Column(eq_fieldnames, "ipv4addresses")] = col

C9_Witness ==
    /\ report = "equipment" /\ pc = "done"
    /\ Len(equips) = 1
    /\ IpsOf(1) = << <<"7">>, <<"1", "0">>, <<"7">> >>
    /\ file.rows[1][Column(eq_fieldnames, "ipv4addresses")]
          = <<"7", ",", " ", "1", "0", ",", " ", "7">>

RECURSIVE MaxReported(_)
MaxReported(k) == IF k = 0 THEN 0 ELSE Max(PagesOf(k), MaxReported(k - 1))

\* C10: with a page count that may change from response to response, the
\* pages requested are 1, 2, ... without a gap; after the successful response
\* to page k the loop has stopped exactly when k + 1 exceeds the page count of
\* that response and otherwise goes on to page k + 1; and when every response
\* succeeds the number of requests never exceeds max(1, B), B the largest
\* page count reported.
C10_LatestPageCountDecides ==
    (Called /\ fp0[PageKey] = 1) =>
        /\ \A i \in DOMAIN reqs : ReqPage(i) = i
        /\ \A k \in DOMAIN resps :
              resps[k].status = "ok" =>
                 IF k + 1 > PagesOf(k)
                 THEN Len(reqs) = k /\ outcome = "tuple"
                 ELSE \/ Len(reqs) > k
                      \/ pc = "fetching" /\ filterparams[PageKey] = k + 1
        /\ AllOk => Len(reqs) <= Max(1, MaxReported(Len(resps)))

C10_Witness ==
    /\ outcome = "tuple"
    /\ Len(reqs) = 2
    /\ AllOk
    /\ PagesOf(1) = 3
    /\ PagesOf(2) = 1

====
